---- MODULE Spec2Model ----
(***************************************************************************)
(* Model of pkg/jobparser.go: DefaultJobParser (Validate, ParseToPserver,  *)
(* ParseToTrainer, ParseToMaster) and the helpers podPorts, masterPorts,   *)
(* podEnv, getEtcdPodSpec.                                                 *)
(*                                                                         *)
(* Representation.                                                         *)
(*  - A Go string that the code builds or formats (names, env values) is a *)
(*    sequence of one-character strings; a string used only as a whole     *)
(*    (env names, command words, kinds) is a TLA+ string.                  *)
(*  - A Go int (64 bit) that the code narrows with int32(...) is a record  *)
(*    [hi, lo] with value hi * 2^32 + lo and lo in -2^31 .. 2^31-1, so     *)
(*    int32(v) is exactly v.lo.  The other Go ints are TLA+ integers.      *)
(*  - A resource.Quantity is its amount in thousandths (500 is "500m").    *)
(***************************************************************************)
EXTENDS Integers, Sequences, FiniteSets, TLC

VARIABLES
  job,     \* the caller's *TrainingJob, mutated in place by Validate
  jobIn,   \* the job as it was on entry to the latest Validate call
  err,     \* what the latest Validate call returned
  first,   \* per operation: the first result since the job last changed
  last,    \* per operation: the latest result since the job last changed
  built,   \* the job description the latest result was built from
  repeated \* some operation was called again since the job last changed

vars == <<job, jobIn, err, first, last, built, repeated>>

-----------------------------------------------------------------------------
(* Bounds of the model *)

MaxCount == 1        \* port and pass counts range over -1 .. MaxCount
MaxInstance == 1     \* instance counts range over -1 .. MaxInstance
MaxHalfCores == 3    \* resource quantities range over 0, 0.5, .. MaxHalfCores/2

-----------------------------------------------------------------------------
(* Integers *)

MaxInt32 == 2147483647
MinInt32 == -MaxInt32 - 1

GoInt(n) == [hi |-> 0, lo |-> n]
Wide(h, l) == [hi |-> h, lo |-> l]
IsZero(w) == w.hi = 0 /\ w.lo = 0
FitsInt32(w) == w.hi = 0

\* the conversion int32(x) of a Go int
int32(w) == w.lo

\* basePort++ on an int32
Inc32(p) == IF p = MaxInt32 THEN MinInt32 ELSE p + 1

-----------------------------------------------------------------------------
(* strconv.Itoa and the %d verb: decimal digits, "-" before a negative.   *)
(* The magnitude is computed in base-10000 limbs, least significant first. *)

Digit == <<"0", "1", "2", "3", "4", "5", "6", "7", "8", "9">>

NegLimbs2(d0, d1, l2) == << d0, d1, -l2 >>
NegLimbs1(d0, l1) ==
  NegLimbs2(d0, (10000 - (l1 % 10000)) % 10000,
            (l1 + ((10000 - (l1 % 10000)) % 10000)) \div 10000)
NegLimbs0(l, d0) == NegLimbs1(d0, (l + d0) \div 10000)

\* |l| for an int32 l, without negating l
AbsLimbs(l) ==
  IF l >= 0
  THEN << l % 10000, (l \div 10000) % 10000, l \div 100000000 >>
  ELSE NegLimbs0(l, (10000 - (l % 10000)) % 10000)

IsNegative(w) == w.hi < 0 \/ (w.hi = 0 /\ w.lo < 0)

Norm2(d0, d1, t2) == << d0, d1, t2 % 10000, t2 \div 10000 >>
Norm1(d0, t1, t2) == Norm2(d0, t1 % 10000, t2 + (t1 \div 10000))
Norm0(t0, t1, t2) == Norm1(t0 % 10000, t1 + (t0 \div 10000), t2)

\* H * 2^32 + s * a, with 2^32 = 42 9496 7296
LimbsOf(H, a, s) == Norm0(H * 7296 + s * a[1], H * 9496 + s * a[2], H * 42 + s * a[3])

\* |hi * 2^32 + lo|: lo adds to |hi| * 2^32 when it has the sign of hi
Limbs(w) ==
  LimbsOf(IF w.hi >= 0 THEN w.hi ELSE -w.hi,
          AbsLimbs(w.lo),
          IF w.hi = 0 \/ ((w.hi > 0) = (w.lo >= 0)) THEN 1 ELSE -1)

Pad4(n) ==
  << Digit[(n \div 1000) + 1], Digit[((n \div 100) % 10) + 1],
     Digit[((n \div 10) % 10) + 1], Digit[(n % 10) + 1] >>

Unpadded(n) ==
  IF n >= 1000 THEN Pad4(n)
  ELSE IF n >= 100 THEN << Digit[(n \div 100) + 1], Digit[((n \div 10) % 10) + 1], Digit[(n % 10) + 1] >>
  ELSE IF n >= 10 THEN << Digit[(n \div 10) + 1], Digit[(n % 10) + 1] >>
  ELSE << Digit[n + 1] >>

Decimal(m) ==
  IF m[4] > 0 THEN Unpadded(m[4]) \o Pad4(m[3]) \o Pad4(m[2]) \o Pad4(m[1])
  ELSE IF m[3] > 0 THEN Unpadded(m[3]) \o Pad4(m[2]) \o Pad4(m[1])
  ELSE IF m[2] > 0 THEN Unpadded(m[2]) \o Pad4(m[1])
  ELSE Unpadded(m[1])

Itoa(w) == IF IsNegative(w) THEN <<"-">> \o Decimal(Limbs(w)) ELSE Decimal(Limbs(w))

-----------------------------------------------------------------------------
(* String literals of the source *)

DefaultImage == <<"p","a","d","d","l","e","p","a","d","d","l","e","/","p","a","d","d","l","e","c","l","o","u","d","-","j","o","b">>
JobportPrefix == <<"j","o","b","p","o","r","t","-">>
PserverSuffix == <<"-","p","s","e","r","v","e","r">>
TrainerSuffix == <<"-","t","r","a","i","n","e","r">>
MasterSuffix == <<"-","m","a","s","t","e","r">>
CudaLibPath == <<"/","u","s","r","/","l","o","c","a","l","/","c","u","d","a","/","l","i","b","6","4">>
imagePullPolicy == "Always"
ErrElastic == "max-instances should equal to min-instances when fault_tolerant is disabled"
Nil == "nil"
NotCalled == "not called"

-----------------------------------------------------------------------------
(* Results of a call: a value, or the run-time panic that ended it *)

None == [tag |-> "none"]
Ok(v) == [tag |-> "ok", value |-> v]
Panic(msg) == [tag |-> "panic", msg |-> msg]

-----------------------------------------------------------------------------
(* edlresource.TrainingJob helpers and resource.Quantity *)

\* TrainingJob.Elastic: trainer min-instance differs from max-instance
Elastic(j) == j.Spec.Trainer.MinInstance # j.Spec.Trainer.MaxInstance

\* TrainingJob.NeedGPU: the trainer's resource request specifies GPUs
NeedGPU(j) == j.Spec.Trainer.Resources.Requests.gpu > 0

\* Quantity.Value(): the amount as an int64, a fraction rounded up
\* (away from zero)
QuantityValue(milli) ==
  IF milli >= 0 THEN (milli + 999) \div 1000 ELSE -((999 - milli) \div 1000)

-----------------------------------------------------------------------------
(* Validate *)

\* mutant: the sparse count is defaulted on the dense count's test
DefaultedSparseByDense(j) ==
  [j EXCEPT !.Spec.Port = IF IsZero(@) THEN GoInt(7164) ELSE @,
            !.Spec.PortsNum = IF @ = 0 THEN 1 ELSE @,
            !.Spec.PortsNumForSparse = IF j.Spec.PortsNum = 0 THEN 1 ELSE @,
            !.Spec.Image = IF @ = <<>> THEN DefaultImage ELSE @,
            !.Spec.Passes = IF @ = 0 THEN 1 ELSE @]

\* mutant: the pass count is not defaulted
DefaultedNoPasses(j) ==
  [j EXCEPT !.Spec.Port = IF IsZero(@) THEN GoInt(7164) ELSE @,
            !.Spec.PortsNum = IF @ = 0 THEN 1 ELSE @,
            !.Spec.PortsNumForSparse = IF @ = 0 THEN 1 ELSE @,
            !.Spec.Image = IF @ = <<>> THEN DefaultImage ELSE @]

Defaulted(j) ==
  [j EXCEPT !.Spec.Port = IF IsZero(@) THEN GoInt(7164) ELSE @,
            !.Spec.PortsNum = IF @ = 0 THEN 1 ELSE @,
            !.Spec.PortsNumForSparse = IF @ = 0 THEN 1 ELSE @,
            !.Spec.Image = IF @ = <<>> THEN DefaultImage ELSE @,
            !.Spec.Passes = IF @ = 0 THEN 1 ELSE @]

\* mutant: the fault-tolerance test is not negated
CheckedFlagInverted(j) ==
  [job |-> j,
   err |-> IF j.Spec.FaultTolerant /\ Elastic(j) THEN ErrElastic ELSE Nil]

Checked(j) ==
  [job |-> j,
   err |-> IF ~j.Spec.FaultTolerant /\ Elastic(j) THEN ErrElastic ELSE Nil]

\* mutant: the elastic rule is checked before the defaults are filled
ValidateJobCheckFirst(j) ==
  IF Checked(j).err # Nil THEN Checked(j) ELSE Checked(Defaulted(j))

ValidateJob(j) == Checked(Defaulted(j))

-----------------------------------------------------------------------------
(* podPorts, masterPorts, podEnv *)

\* mutant: the loop does not advance the port number
RECURSIVE PortsLoopNoIncrement(_, _, _, _)
PortsLoopNoIncrement(ports, i, portsTotal, basePort) ==
  IF i < portsTotal
  THEN PortsLoopNoIncrement(
         Append(ports, [Name |-> JobportPrefix \o Itoa(GoInt(basePort)),
                        ContainerPort |-> basePort]),
         i + 1, portsTotal, basePort)
  ELSE ports

RECURSIVE PortsLoop(_, _, _, _)
PortsLoop(ports, i, portsTotal, basePort) ==
  IF i < portsTotal
  THEN PortsLoop(Append(ports, [Name |-> JobportPrefix \o Itoa(GoInt(basePort)),
                                ContainerPort |-> basePort]),
                 i + 1, portsTotal, Inc32(basePort))
  ELSE ports

\* mutant: only the dense ports are counted
podPortsDenseOnly(j) ==
  LET portsTotal == j.Spec.PortsNum
  IN  IF portsTotal < 0
      THEN Panic("makeslice: len out of range")
      ELSE Ok(PortsLoop(<<>>, 0, portsTotal, int32(j.Spec.Port)))

podPorts(j) ==
  LET portsTotal == j.Spec.PortsNum + j.Spec.PortsNumForSparse
  IN  IF portsTotal < 0
      THEN Panic("makeslice: len out of range")
      ELSE Ok(PortsLoop(<<>>, 0, portsTotal, int32(j.Spec.Port)))

masterPorts(j) ==
  << [Name |-> <<"m","a","s","t","e","r","-","p","o","r","t">>, ContainerPort |-> 8080],
     [Name |-> <<"e","t","c","d","-","p","o","r","t">>, ContainerPort |-> 2379] >>

EnvVar(name, value) == [Name |-> name, Value |-> value, ValueFrom |-> ""]
EnvRef(name, path) == [Name |-> name, Value |-> <<>>, ValueFrom |-> path]

\* mutant: the CPU quantity is used whether or not GPUs are requested
trainerCountCpuOnly(j) == QuantityValue(j.Spec.Trainer.Resources.Requests.cpu)

trainerCount(j) ==
  IF NeedGPU(j)
  THEN QuantityValue(j.Spec.Trainer.Resources.Requests.gpu)
  ELSE QuantityValue(j.Spec.Trainer.Resources.Requests.cpu)

podEnv(j) ==
  LET needGPU == IF NeedGPU(j) THEN <<"1">> ELSE <<"0">>
  IN  << EnvVar("PADDLE_JOB_NAME", j.ObjectMeta.Name),
         EnvVar("TRAINERS", Itoa(j.Spec.Trainer.MinInstance)),
         EnvVar("PSERVERS", Itoa(j.Spec.Pserver.MinInstance)),
         EnvVar("ENTRY", j.Spec.Trainer.Entrypoint),
         EnvVar("TOPOLOGY", j.Spec.Trainer.Entrypoint),
         EnvVar("TRAINER_PACKAGE", j.Spec.Trainer.Workspace),
         EnvVar("PADDLE_INIT_PORT", Itoa(j.Spec.Port)),
         EnvVar("PADDLE_INIT_TRAINER_COUNT", Itoa(GoInt(trainerCount(j)))),
         EnvVar("PADDLE_INIT_PORTS_NUM", Itoa(GoInt(j.Spec.PortsNum))),
         EnvVar("PADDLE_INIT_PORTS_NUM_FOR_SPARSE", Itoa(GoInt(j.Spec.PortsNumForSparse))),
         EnvVar("PADDLE_INIT_NUM_GRADIENT_SERVERS", Itoa(j.Spec.Trainer.MinInstance)),
         EnvVar("PADDLE_INIT_NUM_PASSES", Itoa(GoInt(j.Spec.Passes))),
         EnvVar("PADDLE_INIT_USE_GPU", needGPU),
         EnvVar("LD_LIBRARY_PATH", CudaLibPath),
         EnvRef("NAMESPACE", "metadata.namespace"),
         EnvRef("POD_IP", "status.podIP") >>

-----------------------------------------------------------------------------
(* The builders *)

pserverCommand(j) ==
  IF j.Spec.FaultTolerant
  THEN <<"paddle_k8s", "start_new_pserver">>
  ELSE <<"paddle_k8s", "start_pserver">>

ParseToPserver(j) ==
  LET replicas == int32(j.Spec.Pserver.MinInstance)
      command  == pserverCommand(j)
      ports    == podPorts(j)
  IN  IF ports.tag = "panic" THEN ports ELSE
      Ok([TypeMeta   |-> [Kind |-> "extensions/v1beta1", APIVersion |-> "ReplicaSet"],
          ObjectMeta |-> [Name |-> j.ObjectMeta.Name \o PserverSuffix,
                          Namespace |-> j.ObjectMeta.Namespace],
          Spec |-> [
            Replicas |-> replicas,
            Template |-> [
              ObjectMeta |-> [Labels |-> [key |-> "paddle-job-pserver",
                                          value |-> j.ObjectMeta.Name]],
              Spec |-> [
                Volumes |-> j.Spec.Volumes,
                Containers |-> <<
                  [Name      |-> "pserver",
                   Image     |-> j.Spec.Image,
                   Ports     |-> ports.value,
                   Env       |-> podEnv(j),
                   Command   |-> command,
                   Resources |-> j.Spec.Pserver.Resources] >>,
                ImagePullSecrets |-> j.Spec.ImagePullSecrets,
                HostNetwork      |-> j.Spec.HostNetwork]]]])

\* mutant: the command is appended to the preallocated two-element slice
trainerCommandAppended(j) ==
  IF j.Spec.FaultTolerant
  THEN <<"", "", "paddle_k8s", "start_new_trainer">>
  ELSE <<"", "", "paddle_k8s", "start_trainer", "v2">>

trainerCommand(j) ==
  IF j.Spec.FaultTolerant
  THEN <<"paddle_k8s", "start_new_trainer">>
  ELSE <<"paddle_k8s", "start_trainer", "v2">>

\* mutant: the parallelism is taken from the maximum instance count
trainerReplicasFromMax(j) == int32(j.Spec.Trainer.MaxInstance)

trainerReplicas(j) == int32(j.Spec.Trainer.MinInstance)

ParseToTrainer(j) ==
  LET replicas == trainerReplicas(j)
      command  == trainerCommand(j)
      ports    == podPorts(j)
  IN  IF ports.tag = "panic" THEN ports ELSE
      Ok([TypeMeta   |-> [Kind |-> "Job", APIVersion |-> "batch/v1"],
          ObjectMeta |-> [Name |-> j.ObjectMeta.Name \o TrainerSuffix,
                          Namespace |-> j.ObjectMeta.Namespace],
          Spec |-> [
            Parallelism |-> replicas,
            Template |-> [
              ObjectMeta |-> [Labels |-> [key |-> "paddle-job",
                                          value |-> j.ObjectMeta.Name]],
              Spec |-> [
                Volumes |-> j.Spec.Volumes,
                Containers |-> <<
                  [Name            |-> "trainer",
                   Image           |-> j.Spec.Image,
                   ImagePullPolicy |-> imagePullPolicy,
                   Command         |-> command,
                   VolumeMounts    |-> j.Spec.VolumeMounts,
                   Ports           |-> ports.value,
                   Env             |-> podEnv(j),
                   Resources       |-> j.Spec.Trainer.Resources] >>,
                ImagePullSecrets |-> j.Spec.ImagePullSecrets,
                HostNetwork      |-> j.Spec.HostNetwork,
                RestartPolicy    |-> "Never"]]]])

getEtcdPodSpec(j) ==
  [Name            |-> "etcd",
   Image           |-> "quay.io/coreos/etcd:v3.2.1",
   ImagePullPolicy |-> imagePullPolicy,
   Ports           |-> <<>>,
   Env             |-> podEnv(j),
   Command         |-> <<"etcd", "-name", "etcd0",
       "-advertise-client-urls", "http://$(POD_IP):2379,http://$(POD_IP):4001",
       "-listen-client-urls", "http://0.0.0.0:2379,http://0.0.0.0:4001",
       "-initial-advertise-peer-urls", "http://$(POD_IP):2380",
       "-listen-peer-urls", "http://0.0.0.0:2380",
       "-initial-cluster", "etcd0=http://$(POD_IP):2380",
       "-initial-cluster-state", "new">>]

ParseToMaster(j) ==
  LET replicas == 1
      command  == <<"paddle_k8s", "start_master">>
  IN  Ok([TypeMeta   |-> [Kind |-> "extensions/v1beta1", APIVersion |-> "ReplicaSet"],
          ObjectMeta |-> [Name |-> j.ObjectMeta.Name \o MasterSuffix,
                          Namespace |-> j.ObjectMeta.Namespace],
          Spec |-> [
            Replicas |-> replicas,
            Template |-> [
              ObjectMeta |-> [Labels |-> [key |-> "paddle-job-master",
                                          value |-> j.ObjectMeta.Name]],
              Spec |-> [
                Volumes |-> j.Spec.Volumes,
                Containers |-> <<
                  [Name            |-> "master",
                   Image           |-> j.Spec.Image,
                   ImagePullPolicy |-> imagePullPolicy,
                   Ports           |-> masterPorts(j),
                   Command         |-> command,
                   VolumeMounts    |-> j.Spec.VolumeMounts,
                   Resources       |-> j.Spec.Master.Resources],
                  getEtcdPodSpec(j) >>,
                ImagePullSecrets |-> j.Spec.ImagePullSecrets,
                HostNetwork      |-> j.Spec.HostNetwork]]]])

-----------------------------------------------------------------------------
(* Job descriptions the caller may hand in *)

Resources(cpu, gpu) ==
  [Requests |-> [cpu |-> cpu, gpu |-> gpu], Limits |-> [cpu |-> cpu, gpu |-> gpu]]

MkJob(name, port, portsNum, sparse, image, passes, ft, tmin, tmax, pmin, cpu, gpu) ==
  [ObjectMeta |-> [Name |-> name, Namespace |-> <<"n","s","1">>],
   Spec |-> [
     Port |-> port, PortsNum |-> portsNum, PortsNumForSparse |-> sparse,
     Image |-> image, Passes |-> passes, FaultTolerant |-> ft,
     Volumes |-> "volumes", VolumeMounts |-> "mounts",
     ImagePullSecrets |-> "secrets", HostNetwork |-> FALSE,
     Trainer |-> [MinInstance |-> tmin, MaxInstance |-> tmax,
                  Entrypoint |-> <<"e">>, Workspace |-> <<"/","w">>,
                  Resources |-> Resources(cpu, gpu)],
     Pserver |-> [MinInstance |-> pmin, Resources |-> Resources(1000, 0)],
     Master  |-> [Resources |-> Resources(500, 0)]]]

Counts == -1 .. MaxCount
Instances == {GoInt(n) : n \in -1 .. MaxInstance}
Quantities == {500 * k : k \in 0 .. MaxHalfCores}

\* every combination of set and unset defaulted fields
DefaultJobs ==
  {MkJob(<<"w">>, port, pn, sp, image, passes, v[1], GoInt(1), v[2], GoInt(1), 1000, 0) :
     port \in {GoInt(0), GoInt(9000)},
     pn \in {0, MaxCount + 1}, sp \in {0, MaxCount + 1}, image \in {<<>>, <<"i">>},
     passes \in {0, MaxCount + 1},
     v \in {<<TRUE, GoInt(2)>>, <<FALSE, GoInt(1)>>, <<FALSE, GoInt(2)>>}}

\* every combination of the flag and the trainer instance counts
ElasticJobs ==
  {MkJob(<<"w">>, port, 1, 1, <<"i">>, 1, ft, tmin, tmax, GoInt(1), 1000, 0) :
     port \in {GoInt(0), GoInt(9000)},
     ft \in BOOLEAN, tmin \in Instances, tmax \in Instances}

\* negative fields and a base port beyond 32 bits
OddJobs ==
  {MkJob(<<"w">>, port, pn, sp, <<>>, passes, ft, GoInt(1), GoInt(1), GoInt(1), 1000, 0) :
     port \in {GoInt(-1), Wide(1, 0), Wide(-1, 0)},
     pn \in {-1, 0}, sp \in {-1, MaxCount}, passes \in {-1, 0}, ft \in BOOLEAN}

\* the builders: port lists, narrowing, names
BuildJobs ==
  {MkJob(v[1], port, pn, sp, <<"i">>, 1, v[3], v[4], GoInt(MaxInstance), v[2], 1000, 0) :
     v \in {<< <<>>, GoInt(2), TRUE, GoInt(MaxInstance) >>,
            << <<"w","2">>, Wide(-1, 3), FALSE, Wide(1, 2) >>,
            << <<"w","2">>, GoInt(2), TRUE, GoInt(MinInt32) >>},
     port \in {GoInt(7164), GoInt(MaxInt32), Wide(1, 5), GoInt(-2)},
     pn \in Counts, sp \in Counts}

\* the trainer count of podEnv
EnvJobs ==
  {MkJob(<<"w">>, GoInt(0), 0, 0, <<>>, 0, TRUE, GoInt(1), GoInt(1), GoInt(1), cpu, gpu) :
     cpu \in Quantities, gpu \in Quantities}

Jobs == DefaultJobs \cup ElasticJobs \cup OddJobs \cup BuildJobs \cup EnvJobs

-----------------------------------------------------------------------------
(* The state machine: a caller holding one job description *)

Ops == {"ParseToPserver", "ParseToTrainer", "ParseToMaster", "podEnv", "podPorts"}
NoCalls == [op \in Ops |-> None]

Init ==
  /\ job \in Jobs
  /\ jobIn = job
  /\ err = NotCalled
  /\ first = NoCalls
  /\ last = NoCalls
  /\ built = None
  /\ repeated = FALSE

\* Validate mutates the job through the pointer; results built from the old
\* job description are no longer results of the current one
Validate ==
  /\ job' = ValidateJob(job).job
  /\ jobIn' = job
  /\ err' = ValidateJob(job).err
  /\ IF job' = job
     THEN UNCHANGED <<first, last, built, repeated>>
     ELSE first' = NoCalls /\ last' = NoCalls /\ built' = None /\ repeated' = FALSE

Returned(op, r) ==
  /\ last' = [last EXCEPT ![op] = r]
  /\ first' = [first EXCEPT ![op] = IF @ = None THEN r ELSE @]
  /\ built' = job
  /\ repeated' = (repeated \/ first[op] # None)

\* mutant: the builder fills the defaults into the caller's job
CallParseToPserverDefaulting ==
  /\ Returned("ParseToPserver", ParseToPserver(Defaulted(job)))
  /\ job' = Defaulted(job)
  /\ UNCHANGED <<jobIn, err>>

CallParseToPserver ==
  /\ Returned("ParseToPserver", ParseToPserver(job))
  /\ UNCHANGED <<job, jobIn, err>>

CallParseToTrainer ==
  /\ Returned("ParseToTrainer", ParseToTrainer(job))
  /\ UNCHANGED <<job, jobIn, err>>

CallParseToMaster ==
  /\ Returned("ParseToMaster", ParseToMaster(job))
  /\ UNCHANGED <<job, jobIn, err>>

CallPodEnv ==
  /\ Returned("podEnv", Ok(podEnv(job)))
  /\ UNCHANGED <<job, jobIn, err>>

CallPodPorts ==
  /\ Returned("podPorts", podPorts(job))
  /\ UNCHANGED <<job, jobIn, err>>

Next ==
  \/ Validate
  \/ CallParseToPserver
  \/ CallParseToTrainer
  \/ CallParseToMaster
  \/ CallPodEnv
  \/ CallPodPorts

Spec == Init /\ [][Next]_vars

-----------------------------------------------------------------------------
(* Notions used by the properties *)

Positive(w) == w.hi > 0 \/ (w.hi = 0 /\ w.lo > 0)
NonNegative(w) == w.hi > 0 \/ (w.hi = 0 /\ w.lo >= 0)

EnvValue(env, name) ==
  LET i == CHOOSE k \in 1 .. Len(env) : env[k].Name = name IN env[i].Value

DigitValue(c) == CHOOSE d \in 0 .. 9 : Digit[d + 1] = c

RECURSIVE AtoiDigits(_, _)
AtoiDigits(s, acc) ==
  IF s = <<>> THEN acc ELSE AtoiDigits(Tail(s), 10 * acc + DigitValue(Head(s)))

Atoi(s) == IF Head(s) = "-" THEN -AtoiDigits(Tail(s), 0) ELSE AtoiDigits(s, 0)

\* the least whole number of units that holds q thousandths, q >= 0
CeilUnits(q) ==
  CHOOSE n \in 0 .. (q \div 1000) + 1 : 1000 * n >= q /\ 1000 * (n - 1) < q

Containers(r) == r.value.Spec.Template.Spec.Containers

Validated == err # NotCalled

-----------------------------------------------------------------------------
(* Validate: C1, C2, C3, C9 *)

\* C1: Validate returns the error exactly when fault tolerance is disabled
\* and the trainer minimum instance count differs from the maximum; in every
\* other case (min > max, zero, negative counts included) it returns nil.
C1_ErrorIffElasticWithoutFaultTolerance ==
  Validated =>
    /\ err \in {ErrElastic, Nil}
    /\ (err = ErrElastic) <=>
         (~jobIn.Spec.FaultTolerant
            /\ jobIn.Spec.Trainer.MinInstance # jobIn.Spec.Trainer.MaxInstance)

C1_Witness ==
  /\ err = ErrElastic
  /\ jobIn.Spec.Trainer.MinInstance.lo > jobIn.Spec.Trainer.MaxInstance.lo
  /\ jobIn.Spec.Trainer.MaxInstance.lo < 0

\* C2: Validate changes only base port, dense port count, sparse port count,
\* image and pass count, and each only when it is zero on entry, to 7164, 1,
\* 1, the default image and 1; every other field is as on entry.
C2_OnlyUnsetFieldsGetDefaults ==
  Validated =>
    /\ job.Spec.Port =
         IF jobIn.Spec.Port = GoInt(0) THEN GoInt(7164) ELSE jobIn.Spec.Port
    /\ job.Spec.PortsNum = IF jobIn.Spec.PortsNum = 0 THEN 1 ELSE jobIn.Spec.PortsNum
    /\ job.Spec.PortsNumForSparse =
         IF jobIn.Spec.PortsNumForSparse = 0 THEN 1 ELSE jobIn.Spec.PortsNumForSparse
    /\ job.Spec.Image = IF Len(jobIn.Spec.Image) = 0 THEN DefaultImage ELSE jobIn.Spec.Image
    /\ job.Spec.Passes = IF jobIn.Spec.Passes = 0 THEN 1 ELSE jobIn.Spec.Passes
    /\ job.ObjectMeta = jobIn.ObjectMeta
    /\ DOMAIN job.Spec = DOMAIN jobIn.Spec
    /\ \A f \in DOMAIN job.Spec \ {"Port", "PortsNum", "PortsNumForSparse", "Image", "Passes"} :
         job.Spec[f] = jobIn.Spec[f]

C2_Witness ==
  /\ Validated
  /\ jobIn.Spec.Port = GoInt(0) /\ job.Spec.Port = GoInt(7164)
  /\ jobIn.Spec.PortsNum = 0 /\ jobIn.Spec.PortsNumForSparse > 1
  /\ jobIn.Spec.Image # <<>> /\ jobIn.Spec.Passes = 0

ValidatedInvariants(j) ==
  /\ Positive(j.Spec.Port)
  /\ j.Spec.PortsNum >= 1
  /\ j.Spec.PortsNumForSparse >= 1
  /\ j.Spec.Passes >= 1
  /\ Len(j.Spec.Image) > 0
  /\ (j.Spec.Trainer.MinInstance # j.Spec.Trainer.MaxInstance => j.Spec.FaultTolerant)

\* C3 as stated: after a Validate that returns nil the job has base port > 0,
\* dense, sparse and pass counts >= 1, a non-empty image and is fault
\* tolerant if elastic, for every integer input, negative ones included.
C3_Original == err = Nil => ValidatedInvariants(job)

\* C3 as amended: the same, for the jobs whose base port, dense port count,
\* sparse port count and pass count are not negative on entry.
C3_InvariantsForNonNegativeInput ==
  (/\ err = Nil
   /\ NonNegative(jobIn.Spec.Port)
   /\ jobIn.Spec.PortsNum >= 0
   /\ jobIn.Spec.PortsNumForSparse >= 0
   /\ jobIn.Spec.Passes >= 0) => ValidatedInvariants(job)

C3_Witness ==
  /\ err = Nil
  /\ jobIn.Spec.Port = GoInt(0) /\ jobIn.Spec.PortsNum = 0
  /\ jobIn.Spec.PortsNumForSparse = 0 /\ jobIn.Spec.Passes = 0
  /\ jobIn.Spec.Image = <<>>
  /\ jobIn.Spec.Trainer.MinInstance # jobIn.Spec.Trainer.MaxInstance
  /\ ValidatedInvariants(job)

\* C9: a Validate call that returns the elastic error has filled the
\* defaults all the same: every defaulted field that was zero on entry holds
\* its default, the job is what an accepted job with the same fields would
\* be; a further Validate call returns the error again and changes nothing.
C9_RejectionKeepsDefaults ==
  [][Validate =>
       /\ err' = ErrElastic =>
            /\ (job.Spec.Port = GoInt(0) => job'.Spec.Port = GoInt(7164))
            /\ (job.Spec.PortsNum = 0 => job'.Spec.PortsNum = 1)
            /\ (job.Spec.PortsNumForSparse = 0 => job'.Spec.PortsNumForSparse = 1)
            /\ (job.Spec.Image = <<>> => job'.Spec.Image = DefaultImage)
            /\ (job.Spec.Passes = 0 => job'.Spec.Passes = 1)
            /\ [job' EXCEPT !.Spec.FaultTolerant = TRUE]
                 = ValidateJob([job EXCEPT !.Spec.FaultTolerant = TRUE]).job
       /\ err = ErrElastic => (err' = ErrElastic /\ job' = job)]_vars

C9_Witness ==
  /\ err = ErrElastic
  /\ jobIn.Spec.Port = GoInt(0) /\ jobIn.Spec.Image = <<>> /\ jobIn.Spec.Passes = 0
  /\ job # jobIn

-----------------------------------------------------------------------------
(* podPorts: C4 *)

PortsTotal(j) == j.Spec.PortsNum + j.Spec.PortsNumForSparse

Consecutive(ports) ==
  \A i \in 1 .. Len(ports) - 1 :
    ports[i + 1].ContainerPort = ports[i].ContainerPort + 1

NamedByNumber(ports) ==
  \A i \in 1 .. Len(ports) :
    ports[i].Name = JobportPrefix \o Itoa(GoInt(ports[i].ContainerPort))

-----------------------------------------------------------------------------
(* The builders: C5, C6, C7, C10 *)

\* C5: the pserver command is ["paddle_k8s","start_new_pserver"] with the
\* fault-tolerance flag and ["paddle_k8s","start_pserver"] without; the
\* trainer command is ["paddle_k8s","start_new_trainer"] with it and
\* ["paddle_k8s","start_trainer","v2"] without; nothing else decides them
\* and they hold no other element.
C5_CommandByFaultToleranceFlag ==
  /\ last["ParseToPserver"].tag = "ok" =>
       Containers(last["ParseToPserver"])[1].Command =
         IF job.Spec.FaultTolerant
         THEN <<"paddle_k8s", "start_new_pserver">>
         ELSE <<"paddle_k8s", "start_pserver">>
  /\ last["ParseToTrainer"].tag = "ok" =>
       Containers(last["ParseToTrainer"])[1].Command =
         IF job.Spec.FaultTolerant
         THEN <<"paddle_k8s", "start_new_trainer">>
         ELSE <<"paddle_k8s", "start_trainer", "v2">>

C5_Witness ==
  /\ last["ParseToPserver"].tag = "ok"
  /\ last["ParseToTrainer"].tag = "ok"
  /\ ~job.Spec.FaultTolerant
  /\ Len(Containers(last["ParseToTrainer"])[1].Command) = 3
  /\ Len(Containers(last["ParseToPserver"])[1].Command) = 2

\* C6 as stated: the descriptor ParseToTrainer returns has restart policy
\* "Never" and a parallelism equal to the trainer minimum instance count, for
\* every integer value of that count, whatever the fault-tolerance flag and
\* the maximum instance count are.
C6_Original ==
  last["ParseToTrainer"].tag = "ok" =>
    /\ last["ParseToTrainer"].value.Spec.Template.Spec.RestartPolicy = "Never"
    /\ GoInt(last["ParseToTrainer"].value.Spec.Parallelism) = job.Spec.Trainer.MinInstance

\* C6 as amended: the restart policy is "Never" and the parallelism is the
\* trainer minimum instance count narrowed to 32 bits, which is the count
\* itself when the count is a 32-bit integer.
C6_TrainerParallelismAndRestartPolicy ==
  last["ParseToTrainer"].tag = "ok" =>
    /\ last["ParseToTrainer"].value.Spec.Template.Spec.RestartPolicy = "Never"
    /\ last["ParseToTrainer"].value.Spec.Parallelism = job.Spec.Trainer.MinInstance.lo
    /\ (job.Spec.Trainer.MinInstance.hi = 0 =>
          GoInt(last["ParseToTrainer"].value.Spec.Parallelism) = job.Spec.Trainer.MinInstance)

C6_Witness ==
  /\ last["ParseToTrainer"].tag = "ok"
  /\ ~job.Spec.FaultTolerant
  /\ job.Spec.Trainer.MinInstance # job.Spec.Trainer.MaxInstance
  /\ job.Spec.Trainer.MinInstance.hi # 0
  /\ last["ParseToTrainer"].value.Spec.Parallelism = 2

\* C7: while the job description is unchanged, every call of ParseToPserver,
\* ParseToTrainer, ParseToMaster, podEnv (and podPorts) returns what the
\* first call of that operation returned, field for field and in order, and
\* no such call changes the job description.
C7_RegenerationIdempotent ==
  \A op \in Ops :
    first[op] # None => (last[op] = first[op] /\ built = job)

C7_Witness ==
  /\ repeated
  /\ Validated
  /\ \A op \in Ops : first[op] # None /\ last[op] = first[op]
  /\ last["ParseToPserver"].tag = "ok"

-----------------------------------------------------------------------------
(* podEnv: C8 *)

-----------------------------------------------------------------------------
(* Containers of one job: C10 *)

PortsMatchEnv(c) ==
  /\ Len(c.Ports) = Atoi(EnvValue(c.Env, "PADDLE_INIT_PORTS_NUM"))
                      + Atoi(EnvValue(c.Env, "PADDLE_INIT_PORTS_NUM_FOR_SPARSE"))
  /\ Len(c.Ports) >= 1 =>
       Itoa(GoInt(c.Ports[1].ContainerPort)) = EnvValue(c.Env, "PADDLE_INIT_PORT")

AllBuilt ==
  /\ last["ParseToPserver"].tag = "ok"
  /\ last["ParseToTrainer"].tag = "ok"
  /\ last["ParseToMaster"].tag = "ok"

\* C10 as stated: the pserver and trainer containers carry the same ports
\* and the same environment, the etcd container that same environment; in
\* each of the three the number of ports equals PADDLE_INIT_PORTS_NUM +
\* PADDLE_INIT_PORTS_NUM_FOR_SPARSE and the first port, if any, equals the
\* PADDLE_INIT_PORT value.
C10_Original ==
  /\ (last["ParseToPserver"].tag = "ok" /\ last["ParseToTrainer"].tag = "ok") =>
       /\ Containers(last["ParseToPserver"])[1].Ports = Containers(last["ParseToTrainer"])[1].Ports
       /\ Containers(last["ParseToPserver"])[1].Env = Containers(last["ParseToTrainer"])[1].Env
  /\ (last["ParseToPserver"].tag = "ok" /\ last["ParseToMaster"].tag = "ok") =>
       Containers(last["ParseToMaster"])[2].Env = Containers(last["ParseToPserver"])[1].Env
  /\ last["ParseToPserver"].tag = "ok" => PortsMatchEnv(Containers(last["ParseToPserver"])[1])
  /\ last["ParseToTrainer"].tag = "ok" => PortsMatchEnv(Containers(last["ParseToTrainer"])[1])
  /\ last["ParseToMaster"].tag = "ok" => PortsMatchEnv(Containers(last["ParseToMaster"])[2])

PortsMatchEnvNarrowed(c, basePort) ==
  /\ Len(c.Ports) = Atoi(EnvValue(c.Env, "PADDLE_INIT_PORTS_NUM"))
                      + Atoi(EnvValue(c.Env, "PADDLE_INIT_PORTS_NUM_FOR_SPARSE"))
  /\ Len(c.Ports) >= 1 =>
       /\ c.Ports[1].ContainerPort = basePort.lo
       /\ (basePort.hi = 0) <=>
            (Itoa(GoInt(c.Ports[1].ContainerPort)) = EnvValue(c.Env, "PADDLE_INIT_PORT"))

\* C10 as amended: the pserver and trainer containers carry the same ports
\* and the same environment; the etcd container carries that environment and
\* no ports; in the pserver and the trainer container the number of ports
\* equals PADDLE_INIT_PORTS_NUM + PADDLE_INIT_PORTS_NUM_FOR_SPARSE and the
\* first port, if any, is the base port narrowed to 32 bits, which is the
\* PADDLE_INIT_PORT value exactly when the base port is a 32-bit integer.
C10_ContainersAgree ==
  /\ (last["ParseToPserver"].tag = "ok" /\ last["ParseToTrainer"].tag = "ok") =>
       /\ Containers(last["ParseToPserver"])[1].Ports = Containers(last["ParseToTrainer"])[1].Ports
       /\ Containers(last["ParseToPserver"])[1].Env = Containers(last["ParseToTrainer"])[1].Env
  /\ (last["ParseToPserver"].tag = "ok" /\ last["ParseToMaster"].tag = "ok") =>
       Containers(last["ParseToMaster"])[2].Env = Containers(last["ParseToPserver"])[1].Env
  /\ last["ParseToMaster"].tag = "ok" => Len(Containers(last["ParseToMaster"])[2].Ports) = 0
  /\ last["ParseToPserver"].tag = "ok" =>
       PortsMatchEnvNarrowed(Containers(last["ParseToPserver"])[1], job.Spec.Port)
  /\ last["ParseToTrainer"].tag = "ok" =>
       PortsMatchEnvNarrowed(Containers(last["ParseToTrainer"])[1], job.Spec.Port)

C10_Witness ==
  /\ AllBuilt
  /\ Len(Containers(last["ParseToPserver"])[1].Ports) = 2
  /\ job.Spec.Port.hi # 0
  /\ Len(Containers(last["ParseToMaster"])[2].Env) = Len(Containers(last["ParseToTrainer"])[1].Env)

====
